---- MODULE Spec2Model ----
(***************************************************************************)
(* Real-time room messaging gateway of edusphere-backend                   *)
(* (src/src/rooms-gateway/rooms-gateway.gateway.ts).                       *)
(*                                                                         *)
(* The gateway runs on one event loop.  Every handler is an async function *)
(* that runs without interruption up to its next `await`; at an `await`    *)
(* any other handler, store reply or disconnect may run.  Each handler     *)
(* invocation is an entry of `ops` whose field pc names the `await` it is  *)
(* suspended at.                                                           *)
(***************************************************************************)
EXTENDS Naturals, Sequences, FiniteSets, Bags

\* ----------------------------------------------------------------- bounds
\* Total number of inbound requests (join-room, leave-room, send-message).
MaxOps == 4

Conns == {"c1", "c2"}        \* socket ids; an id is never reused after close
Rooms == {"r1", "r2"}        \* room ids named in payloads
Users == {"u1", "u2"}        \* user ids named in payloads (not verified)

\* The user id a connection names in its payloads: each client names one
\* user id throughout, a different one per connection.
UserOf == [c \in Conns |-> IF c = "c1" THEN "u1" ELSE "u2"]

NoRoom == "none"             \* roomId: undefined
NoInfo == [userId |-> "none", roomId |-> "absent"]   \* connectedUsers has no key

VARIABLES
  sock,            \* sock[c]: "new" (not yet connected) | "open" | "closed"
  rooms,           \* transport rooms: rooms[r] = sockets that joined r
  connectedUsers,  \* the gateway's Map<socket id, {userId, roomId?}>
  ops,             \* bag of the handler invocations suspended at an await
  started,         \* number of requests received so far
  inbox,           \* inbox[c]: events emitted to socket c, in emission order
  persisted,       \* rooms of the messages the store accepted, in creation order
  broadcasts,      \* ids of the messages broadcast, in emission order
  db,              \* the store's room table: db[id] is the row of room id
  returned         \* outcomes of the RoomsService calls made directly (REST)

vars == <<sock, rooms, connectedUsers, ops, started, inbox, persisted,
          broadcasts, db, returned>>

\* The handlers in flight; suspending, resuming and finishing one.
InFlight == BagToSet(ops)
Suspend(o) == ops (+) SetToBag({o})
Resume(o, o2) == (ops (-) SetToBag({o})) (+) SetToBag({o2})
Finish(o) == ops (-) SetToBag({o})

\* ------------------------------------------------------- emission helpers
\* An emitted event and the payload fields the claims read; id is the
\* message id (0 when the event carries none).
Event(type, room, user, id) ==
  [type |-> type, room_id |-> room, user_id |-> user, id |-> id,
   message |-> ""]

\* client.emit('error', { message })
Error(message) ==
  [type |-> "error", room_id |-> NoRoom, user_id |-> "none", id |-> 0,
   message |-> message]

\* client.emit(type, ...): to the requesting socket only.  (What is emitted
\* to a socket that has closed meanwhile is dropped by the transport.)
ClientEmit(box, c, ev) == [box EXCEPT ![c] = Append(@, ev)]

\* A broadcast is one synchronous fan-out to a set of sockets.
EmitAll(box, targets, ev) ==
  [x \in Conns |-> IF x \in targets THEN Append(box[x], ev) ELSE box[x]]

\* The sockets in transport room r; a name that is no room id (a payload
\* without room_id) names an empty room.
Members(r) == IF r \in Rooms THEN rooms[r] ELSE {}

\* client.broadcast.to(room).emit(...): every socket in the room but client
BroadcastTo(box, c, r, ev) == EmitAll(box, Members(r) \ {c}, ev)

\* A fan-out that queues the event ahead of what socket "c2" has pending.
ServerToUnordered(box, r, ev) ==
  [x \in Conns |->
     IF x \in rooms[r]
       THEN IF x = "c2" THEN <<ev>> \o box[x] ELSE Append(box[x], ev)
       ELSE box[x]]

\* this.server.to(room).emit(...): every socket in the room
ServerTo(box, r, ev) == EmitAll(box, Members(r), ev)

\* ------------------------------------------------------------------ state
\* A row of the room table: "live" (deletedAt is null), "deleted" (deletedAt
\* set) or "absent" (no row with that id); rev counts the writes to the row;
\* users is _count.users, the size of the row's `users` relation, which no
\* code of the repository writes.
Row(state) == [state |-> state, rev |-> 0, users |-> 0]
LiveRow == Row("live")

\* After construction: no socket, empty rooms, empty connectedUsers.
Init ==
  /\ sock = [c \in Conns |-> "new"]
  /\ rooms = [r \in Rooms |-> {}]
  /\ connectedUsers = [c \in Conns |-> NoInfo]
  /\ ops = EmptyBag
  /\ started = 0
  /\ inbox = [c \in Conns |-> << >>]
  /\ persisted = << >>
  /\ broadcasts = << >>
  /\ db = [r \in Rooms |-> LiveRow]
  /\ returned = {}

\* A handler invocation: the payload, the await it is suspended at (pc),
\* the id of the message created for it (send-message), and whether
\* client.leave found the socket in the room (leave-room).
NewOp(kind, c, r, u, pc) ==
  [kind |-> kind, client |-> c, room_id |-> r, user_id |-> u, pc |-> pc,
   id |-> 0, member |-> FALSE]

\* ------------------------------------------------------------ connections
\* handleConnection: logs only; no entry is put into connectedUsers.
handleConnection(c) ==
  /\ sock[c] = "new"
  /\ sock' = [sock EXCEPT ![c] = "open"]
  /\ UNCHANGED <<rooms, connectedUsers, ops, started, inbox, persisted, broadcasts, db, returned>>

\* A disconnect that notifies every room the socket was in, whatever the
\* session says.
handleDisconnectEveryRoom(c) ==
  /\ sock[c] = "open"
  /\ sock' = [sock EXCEPT ![c] = "closed"]
  /\ rooms' = [r \in Rooms |-> rooms[r] \ {c}]
  /\ inbox' = EmitAll(inbox,
                {m \in Conns \ {c} : \E r \in Rooms : {c, m} \subseteq rooms[r]},
                Event("user-left", NoRoom, UserOf[c], 0))
  /\ connectedUsers' = [connectedUsers EXCEPT ![c] = NoInfo]
  /\ UNCHANGED <<ops, started, persisted, broadcasts, db, returned>>

\* The transport closes socket c (the socket leaves all its rooms) and then
\* calls handleDisconnect: user-left to the room recorded in the session,
\* if any, and the session entry is deleted.
handleDisconnect(c) ==
  /\ sock[c] = "open"
  /\ sock' = [sock EXCEPT ![c] = "closed"]
  /\ rooms' = [r \in Rooms |-> rooms[r] \ {c}]
  /\ LET userInfo == connectedUsers[c] IN
       inbox' = IF userInfo /= NoInfo /\ userInfo.roomId /= NoRoom
                  THEN BroadcastTo(inbox, c, userInfo.roomId,
                         Event("user-left", userInfo.roomId, userInfo.userId, 0))
                  ELSE inbox
  /\ connectedUsers' = [connectedUsers EXCEPT ![c] = NoInfo]
  /\ UNCHANGED <<ops, started, persisted, broadcasts, db, returned>>

\* -------------------------------------------------------------- join-room
\* handleJoinRoom up to `await this.roomService.findOne(data.room_id)`.
handleJoinRoom(c, r, u) ==
  /\ sock[c] = "open"
  /\ started < MaxOps
  /\ started' = started + 1
  /\ ops' = Suspend(NewOp("join-room", c, r, u, "findOne"))
  /\ UNCHANGED <<sock, rooms, connectedUsers, inbox, persisted, broadcasts, db, returned>>

\* A join that does not look whether findOne found the room.
JoinFoundUnchecked(o) ==
  /\ o.kind = "join-room" /\ o.pc = "findOne"
  /\ rooms' = IF sock[o.client] = "open"
                THEN [rooms EXCEPT ![o.room_id] = @ \cup {o.client}]
                ELSE rooms
  /\ ops' = Resume(o, [o EXCEPT !.pc = "join"])
  /\ UNCHANGED <<sock, connectedUsers, started, inbox, persisted, broadcasts, db, returned>>

\* findOne returned the room: client.join(room_id) is called and awaited.
\* A closed socket's join is a no-op in the transport.
JoinFound(o) ==
  /\ o.kind = "join-room" /\ o.pc = "findOne"
  /\ db[o.room_id].state = "live"
  /\ rooms' = IF sock[o.client] = "open"
                THEN [rooms EXCEPT ![o.room_id] = @ \cup {o.client}]
                ELSE rooms
  /\ ops' = Resume(o, [o EXCEPT !.pc = "join"])
  /\ UNCHANGED <<sock, connectedUsers, started, inbox, persisted, broadcasts, db, returned>>

\* A catch block that also drops the requester's session.
JoinFailedResets(o) ==
  /\ o.kind = "join-room" /\ o.pc = "findOne"
  /\ inbox' = ClientEmit(inbox, o.client, Error("Failed to join room"))
  /\ connectedUsers' = [connectedUsers EXCEPT ![o.client] = NoInfo]
  /\ ops' = Finish(o)
  /\ UNCHANGED <<sock, rooms, started, persisted, broadcasts, db, returned>>

\* findOne threw (room absent or soft-deleted, or the store failed): catch.
\* (findOne never returns a falsy room, so the `if (!room)` branch is dead.)
JoinFailed(o) ==
  /\ o.kind = "join-room" /\ o.pc = "findOne"
  /\ inbox' = ClientEmit(inbox, o.client, Error("Failed to join room"))
  /\ ops' = Finish(o)
  /\ UNCHANGED <<sock, rooms, connectedUsers, started, persisted, broadcasts, db, returned>>

\* A join that announces the newcomer to the whole room, newcomer included.
JoinFinishEcho(o) ==
  /\ o.kind = "join-room" /\ o.pc = "join"
  /\ LET c == o.client  r == o.room_id  u == o.user_id IN
       /\ connectedUsers' =
            [connectedUsers EXCEPT ![c] = [userId |-> u, roomId |-> r]]
       /\ inbox' = ServerTo(
                     ClientEmit(inbox, c, Event("joined-room", r, u, 0)),
                     r, Event("user-joined", r, u, 0))
  /\ ops' = Finish(o)
  /\ UNCHANGED <<sock, rooms, started, persisted, broadcasts, db, returned>>

\* After `await client.join`: session stored, joined-room, user-joined.
JoinFinish(o) ==
  /\ o.kind = "join-room" /\ o.pc = "join"
  /\ LET c == o.client  r == o.room_id  u == o.user_id IN
       /\ connectedUsers' =
            [connectedUsers EXCEPT ![c] = [userId |-> u, roomId |-> r]]
       /\ inbox' = BroadcastTo(
                     ClientEmit(inbox, c, Event("joined-room", r, u, 0)),
                     c, r, Event("user-joined", r, u, 0))
  /\ ops' = Finish(o)
  /\ UNCHANGED <<sock, rooms, started, persisted, broadcasts, db, returned>>

\* ------------------------------------------------------------- leave-room
\* handleLeaveRoom up to `await client.leave(data.room_id)`: the socket is
\* taken out of the transport room at once.
handleLeaveRoom(c, r, u) ==
  /\ sock[c] = "open"
  /\ started < MaxOps
  /\ started' = started + 1
  /\ rooms' = [x \in Rooms |-> IF x = r THEN rooms[x] \ {c} ELSE rooms[x]]
  /\ ops' = Suspend([NewOp("leave-room", c, r, u, "leave")
                       EXCEPT !.member = (c \in Members(r))])
  /\ UNCHANGED <<sock, connectedUsers, inbox, persisted, broadcasts, db, returned>>

\* After `await client.leave`: session room cleared (if there is a session),
\* left-room to the requester, user-left to the room.
LeaveFinish(o) ==
  /\ o.kind = "leave-room" /\ o.pc = "leave"
  /\ LET c == o.client  r == o.room_id  u == o.user_id IN
       /\ connectedUsers' =
            IF connectedUsers[c] /= NoInfo
              THEN [connectedUsers EXCEPT ![c].roomId = NoRoom]
              ELSE connectedUsers
       /\ inbox' = BroadcastTo(
                     ClientEmit(inbox, c, Event("left-room", r, u, 0)),
                     c, r, Event("user-left", r, u, 0))
  /\ ops' = Finish(o)
  /\ UNCHANGED <<sock, rooms, started, persisted, broadcasts, db, returned>>

\* ----------------------------------------------------------- send-message
\* A send-message that first puts the sender into the room it writes to.
handleSendMessageJoins(c, r, u) ==
  /\ sock[c] = "open"
  /\ started < MaxOps
  /\ started' = started + 1
  /\ rooms' = [rooms EXCEPT ![r] = @ \cup {c}]
  /\ ops' = Suspend(NewOp("send-message", c, r, u, "createMessage"))
  /\ UNCHANGED <<sock, connectedUsers, inbox, persisted, broadcasts, db, returned>>

\* A handler that broadcasts before awaiting the store.
handleSendMessageEager(c, r, u) ==
  /\ sock[c] = "open"
  /\ started < MaxOps
  /\ started' = started + 1
  /\ inbox' = ServerTo(inbox, r, Event("new-message", r, u, 0))
  /\ broadcasts' = Append(broadcasts, 0)
  /\ ops' = Suspend(NewOp("send-message", c, r, u, "createMessage"))
  /\ UNCHANGED <<sock, rooms, connectedUsers, persisted, db, returned>>

\* handleSendMessage up to `await this.roomService.createMessage(...)`.
handleSendMessage(c, r, u) ==
  /\ sock[c] = "open"
  /\ started < MaxOps
  /\ started' = started + 1
  /\ ops' = Suspend(NewOp("send-message", c, r, u, "createMessage"))
  /\ UNCHANGED <<sock, rooms, connectedUsers, inbox, persisted, broadcasts, db, returned>>

\* The store accepts the write (the message exists from now on, after every
\* message accepted before it); its reply is on the way to the gateway.  A
\* message needs a row of its room (an unknown room is a constraint
\* violation); whether the row is soft-deleted is not looked at.
StoreAccept(o) ==
  /\ o.kind = "send-message" /\ o.pc = "createMessage"
  /\ db[o.room_id].state /= "absent"
  /\ persisted' = Append(persisted, o.room_id)
  /\ ops' = Resume(o, [o EXCEPT !.pc = "created", !.id = Len(persisted) + 1])
  /\ UNCHANGED <<sock, rooms, connectedUsers, started, inbox, broadcasts, db, returned>>

\* The store rejects the write; its reply is on the way to the gateway.
StoreReject(o) ==
  /\ o.kind = "send-message" /\ o.pc = "createMessage"
  /\ ops' = Resume(o, [o EXCEPT !.pc = "failed"])
  /\ UNCHANGED <<sock, rooms, connectedUsers, started, inbox, persisted, broadcasts, db, returned>>

\* A broadcast without `.to(room)`: new-message to every connected socket.
SendBroadcastEverywhere(o) ==
  /\ o.kind = "send-message" /\ o.pc = "created"
  /\ inbox' = EmitAll(inbox, {x \in Conns : sock[x] = "open"},
                Event("new-message", o.room_id, o.user_id, o.id))
  /\ broadcasts' = Append(broadcasts, o.id)
  /\ ops' = Finish(o)
  /\ UNCHANGED <<sock, rooms, connectedUsers, started, persisted, db, returned>>

\* A handler that gives up its broadcast when the author's socket is gone.
SendBroadcastIfConnected(o) ==
  /\ o.kind = "send-message" /\ o.pc = "created"
  /\ inbox' = IF sock[o.client] = "open"
                THEN ServerTo(inbox, o.room_id,
                       Event("new-message", o.room_id, o.user_id, o.id))
                ELSE inbox
  /\ broadcasts' = Append(broadcasts, o.id)
  /\ ops' = Finish(o)
  /\ UNCHANGED <<sock, rooms, connectedUsers, started, persisted, db, returned>>

\* A handler that broadcasts for members of the room only and answers
\* everybody else with an error.
SendBroadcastMembersOnly(o) ==
  /\ o.kind = "send-message" /\ o.pc = "created"
  /\ IF o.client \in Members(o.room_id)
       THEN /\ inbox' = ServerTo(inbox, o.room_id,
                          Event("new-message", o.room_id, o.user_id, o.id))
            /\ broadcasts' = Append(broadcasts, o.id)
       ELSE /\ inbox' = ClientEmit(inbox, o.client, Error("Failed to send message"))
            /\ broadcasts' = broadcasts
  /\ ops' = Finish(o)
  /\ UNCHANGED <<sock, rooms, connectedUsers, started, persisted, db, returned>>

\* A handler that holds its broadcast back while any other createMessage is
\* outstanding (one queue for all rooms).
SendBroadcastQueued(o) ==
  /\ o.kind = "send-message" /\ o.pc = "created"
  /\ \A x \in InFlight : x.pc /= "createMessage"
  /\ inbox' = ServerTo(inbox, o.room_id,
                Event("new-message", o.room_id, o.user_id, o.id))
  /\ broadcasts' = Append(broadcasts, o.id)
  /\ ops' = Finish(o)
  /\ UNCHANGED <<sock, rooms, connectedUsers, started, persisted, db, returned>>

\* createMessage resolved: the handler resumes and broadcasts new-message.
SendBroadcast(o) ==
  /\ o.kind = "send-message" /\ o.pc = "created"
  /\ inbox' = ServerTo(inbox, o.room_id,
                Event("new-message", o.room_id, o.user_id, o.id))
  /\ broadcasts' = Append(broadcasts, o.id)
  /\ ops' = Finish(o)
  /\ UNCHANGED <<sock, rooms, connectedUsers, started, persisted, db, returned>>

\* A catch block that swallows the failure.
SendFailedSilent(o) ==
  /\ o.kind = "send-message" /\ o.pc = "failed"
  /\ ops' = Finish(o)
  /\ UNCHANGED <<sock, rooms, connectedUsers, started, inbox, persisted, broadcasts, db, returned>>

\* A catch block that reports the error and broadcasts all the same.
SendFailedLeaky(o) ==
  /\ o.kind = "send-message" /\ o.pc = "failed"
  /\ inbox' = ServerTo(
                ClientEmit(inbox, o.client, Error("Failed to send message")),
                o.room_id, Event("new-message", o.room_id, o.user_id, 0))
  /\ ops' = Finish(o)
  /\ UNCHANGED <<sock, rooms, connectedUsers, started, persisted, broadcasts, db, returned>>

\* createMessage rejected: catch, error to the requesting socket.
SendFailed(o) ==
  /\ o.kind = "send-message" /\ o.pc = "failed"
  /\ inbox' = ClientEmit(inbox, o.client, Error("Failed to send message"))
  /\ ops' = Finish(o)
  /\ UNCHANGED <<sock, rooms, connectedUsers, started, persisted, broadcasts, db, returned>>

\* ----------------------------------------------------------------- typing
\* A typing handler that emits to the whole room, the typist included.
handleTypingEcho(c, r, u) ==
  /\ sock[c] = "open"
  /\ started < MaxOps
  /\ started' = started + 1
  /\ inbox' = ServerTo(inbox, r, Event("user-typing", r, u, 0))
  /\ UNCHANGED <<sock, rooms, connectedUsers, ops, persisted, broadcasts, db, returned>>

\* handleTyping, had it recorded the payload's user id in the sender's session.
handleTypingRenames(c, r, u) ==
  /\ sock[c] = "open"
  /\ started < MaxOps
  /\ started' = started + 1
  /\ inbox' = BroadcastTo(inbox, c, r, Event("user-typing", r, u, 0))
  /\ connectedUsers' = IF connectedUsers[c] = NoInfo
                         THEN connectedUsers
                         ELSE [connectedUsers EXCEPT ![c].userId = u]
  /\ UNCHANGED <<sock, rooms, ops, persisted, broadcasts, db, returned>>

\* handleTyping: synchronous; user-typing to every socket in the room but the
\* client.  (The is_typing flag of the payload is passed through unread.)
handleTyping(c, r, u) ==
  /\ sock[c] = "open"
  /\ started < MaxOps
  /\ started' = started + 1
  /\ inbox' = BroadcastTo(inbox, c, r, Event("user-typing", r, u, 0))
  /\ UNCHANGED <<sock, rooms, connectedUsers, ops, persisted, broadcasts, db, returned>>

\* ---------------------------------------------------------- get-room-info
\* The room-info reply: userCount is room._count.users of the row read.
RoomInfo(r, row) ==
  [type |-> "room-info", room_id |-> r, user_id |-> "none", id |-> 0,
   message |-> "", userCount |-> row.users]

\* handleGetRoomInfo up to `await this.roomService.findOne(data.room_id)`.
handleGetRoomInfo(c, r) ==
  /\ sock[c] = "open"
  /\ started < MaxOps
  /\ started' = started + 1
  /\ ops' = Suspend(NewOp("get-room-info", c, r, "none", "findOne"))
  /\ UNCHANGED <<sock, rooms, connectedUsers, inbox, persisted, broadcasts, db, returned>>

\* findOne returned the room: room-info to the requesting socket.
InfoFound(o) ==
  /\ o.kind = "get-room-info" /\ o.pc = "findOne"
  /\ o.room_id \in Rooms
  /\ db[o.room_id].state = "live"
  /\ inbox' = ClientEmit(inbox, o.client, RoomInfo(o.room_id, db[o.room_id]))
  /\ ops' = Finish(o)
  /\ UNCHANGED <<sock, rooms, connectedUsers, started, persisted, broadcasts, db, returned>>

\* A catch block that reports the failure to the room.
InfoFailedToRoom(o) ==
  /\ o.kind = "get-room-info" /\ o.pc = "findOne"
  /\ inbox' = ServerTo(inbox, o.room_id, Error("Failed to get room info"))
  /\ ops' = Finish(o)
  /\ UNCHANGED <<sock, rooms, connectedUsers, started, persisted, broadcasts, db, returned>>

\* findOne threw (room absent or soft-deleted, or the store failed): catch.
InfoFailed(o) ==
  /\ o.kind = "get-room-info" /\ o.pc = "findOne"
  /\ inbox' = ClientEmit(inbox, o.client, Error("Failed to get room info"))
  /\ ops' = Finish(o)
  /\ UNCHANGED <<sock, rooms, connectedUsers, started, persisted, broadcasts, db, returned>>

\* ---------------------------------------------------------- specification
Next ==
  \/ \E c \in Conns : handleConnection(c)
  \/ \E c \in Conns : handleDisconnect(c)
  \/ \E c \in Conns, r \in Rooms : handleJoinRoom(c, r, UserOf[c])
  \/ \E o \in InFlight : JoinFound(o)
  \/ \E o \in InFlight : JoinFailed(o)
  \/ \E o \in InFlight : JoinFinish(o)
  \/ \E c \in Conns, r \in Rooms : handleLeaveRoom(c, r, UserOf[c])
  \/ \E o \in InFlight : LeaveFinish(o)
  \/ \E c \in Conns, r \in Rooms : handleSendMessage(c, r, UserOf[c])
  \/ \E o \in InFlight : StoreAccept(o)
  \/ \E o \in InFlight : StoreReject(o)
  \/ \E o \in InFlight : SendBroadcast(o)
  \/ \E o \in InFlight : SendFailed(o)

Spec == Init /\ [][Next]_vars

\* ------------------------------------------------- the gateway, all events
\* Requests received under SpecAll (all five inbound events).
MaxAllOps == 3

\* The room table before the first request: each id names a live room or no
\* room at all.
InitAll ==
  /\ sock = [c \in Conns |-> "new"]
  /\ rooms = [r \in Rooms |-> {}]
  /\ connectedUsers = [c \in Conns |-> NoInfo]
  /\ ops = EmptyBag
  /\ started = 0
  /\ inbox = [c \in Conns |-> << >>]
  /\ persisted = << >>
  /\ broadcasts = << >>
  /\ db \in [Rooms -> {LiveRow, Row("absent")}]
  /\ returned = {}

NextAll ==
  \/ \E c \in Conns : handleConnection(c)
  \/ \E c \in Conns : handleDisconnect(c)
  \/ \E c \in Conns, r \in Rooms :
       started < MaxAllOps /\ handleJoinRoom(c, r, UserOf[c])
  \/ \E o \in InFlight : JoinFound(o)
  \/ \E o \in InFlight : JoinFailed(o)
  \/ \E o \in InFlight : JoinFinish(o)
  \/ \E c \in Conns, r \in Rooms :
       started < MaxAllOps /\ handleLeaveRoom(c, r, UserOf[c])
  \/ \E o \in InFlight : LeaveFinish(o)
  \/ \E c \in Conns, r \in Rooms :
       started < MaxAllOps /\ handleSendMessage(c, r, UserOf[c])
  \/ \E o \in InFlight : StoreAccept(o)
  \/ \E o \in InFlight : StoreReject(o)
  \/ \E o \in InFlight : SendBroadcast(o)
  \/ \E o \in InFlight : SendFailed(o)
  \/ \E c \in Conns, r \in Rooms :
       started < MaxAllOps /\ handleTyping(c, r, UserOf[c])
  \/ \E c \in Conns, r \in Rooms :
       started < MaxAllOps /\ handleGetRoomInfo(c, r)
  \/ \E o \in InFlight : InfoFound(o)
  \/ \E o \in InFlight : InfoFailed(o)

SpecAll == InitAll /\ [][NextAll]_vars

\* ------------------------------------- the gateway with one room's store stalled
\* Requests received under SpecStall.
MaxStallOps == 3

\* The room whose createMessage calls never return.
StalledRoom == "r1"

\* A handler suspended at an await resumes: one step of a handler in flight.
\* The store never answers a createMessage for StalledRoom.
Resumes ==
  \E o \in InFlight :
    \/ JoinFound(o)
    \/ JoinFailed(o)
    \/ JoinFinish(o)
    \/ LeaveFinish(o)
    \/ o.room_id /= StalledRoom /\ StoreAccept(o)
    \/ o.room_id /= StalledRoom /\ StoreReject(o)
    \/ SendBroadcast(o)
    \/ SendFailed(o)
    \/ InfoFound(o)
    \/ InfoFailed(o)

NextStall ==
  \/ \E c \in Conns : handleConnection(c)
  \/ \E c \in Conns : handleDisconnect(c)
  \/ \E c \in Conns, r \in Rooms :
       started < MaxStallOps /\ handleJoinRoom(c, r, UserOf[c])
  \/ \E c \in Conns, r \in Rooms :
       started < MaxStallOps /\ handleLeaveRoom(c, r, UserOf[c])
  \/ \E c \in Conns, r \in Rooms :
       started < MaxStallOps /\ handleSendMessage(c, r, UserOf[c])
  \/ \E c \in Conns, r \in Rooms :
       started < MaxStallOps /\ handleTyping(c, r, UserOf[c])
  \/ \E c \in Conns, r \in Rooms :
       started < MaxStallOps /\ handleGetRoomInfo(c, r)
  \/ Resumes

\* The event loop runs a resumed handler, and the store answers every call
\* but the stalled ones: a handler step that stays possible is taken.
SpecStall == Init /\ [][NextStall]_vars /\ WF_vars(Resumes)

\* ------------------------------------------------------------ RoomsService
\* findOne, update and remove called directly (the REST controller), each on
\* a room id: an id of the room table, or the empty string.
MaxSvcOps == 4
EmptyId == ""
RoomIds == Rooms \cup {EmptyId}

\* A finished call: what it was, on which id, and how it ended ("ok",
\* "NotFound" for a NotFoundException, "error" for a failure of the store).
Returned(kind, id, result) == [kind |-> kind, id |-> id, result |-> result]

\* The start of findOne(id), shared by the three methods (update and remove
\* begin with `await this.findOne(id)`): an empty id is refused at once,
\* otherwise prisma.room.findUnique is called and awaited.
CallService(kind, id) ==
  /\ started < MaxOps
  /\ started' = started + 1
  /\ IF id = EmptyId
       THEN /\ returned' = returned \cup {Returned(kind, id, "NotFound")}
            /\ ops' = ops
       ELSE /\ ops' = Suspend(NewOp(kind, "rest", id, "none", "findUnique"))
            /\ returned' = returned
  /\ UNCHANGED <<sock, rooms, connectedUsers, inbox, persisted, broadcasts, db>>

findOne(id) == CallService("findOne", id)
update(id) == CallService("update", id)
remove(id) == CallService("remove", id)

ServiceCalls == {"findOne", "update", "remove"}

\* A lookup that refuses only a missing row (`if (!room)`).
FindUniqueReturnsAnyRow(o) ==
  /\ o.kind \in ServiceCalls /\ o.pc = "findUnique"
  /\ IF db[o.room_id].state = "absent"
       THEN /\ returned' = returned \cup {Returned(o.kind, o.room_id, "NotFound")}
            /\ ops' = Finish(o)
       ELSE IF o.kind = "findOne"
         THEN /\ returned' = returned \cup {Returned(o.kind, o.room_id, "ok")}
              /\ ops' = Finish(o)
         ELSE /\ returned' = returned
              /\ ops' = Resume(o, [o EXCEPT !.pc = "update"])
  /\ UNCHANGED <<sock, rooms, connectedUsers, started, inbox, persisted, broadcasts, db>>

\* findUnique resolved: NotFoundException when there is no row or the row
\* has deletedAt set; otherwise findOne returns the room, and update and
\* remove go on to `await this.prisma.room.update(...)`.
FindUniqueReturns(o) ==
  /\ o.kind \in ServiceCalls /\ o.pc = "findUnique"
  /\ IF db[o.room_id].state /= "live"
       THEN /\ returned' = returned \cup {Returned(o.kind, o.room_id, "NotFound")}
            /\ ops' = Finish(o)
       ELSE IF o.kind = "findOne"
         THEN /\ returned' = returned \cup {Returned(o.kind, o.room_id, "ok")}
              /\ ops' = Finish(o)
         ELSE /\ returned' = returned
              /\ ops' = Resume(o, [o EXCEPT !.pc = "update"])
  /\ UNCHANGED <<sock, rooms, connectedUsers, started, inbox, persisted, broadcasts, db>>

\* prisma.room.update resolved: the row (looked up by id alone) is written;
\* remove sets deletedAt, update writes the DTO's fields.
RoomUpdateReturns(o) ==
  /\ o.kind \in {"update", "remove"} /\ o.pc = "update"
  /\ db[o.room_id].state /= "absent"
  /\ db' = [db EXCEPT ![o.room_id] =
              [state |-> IF o.kind = "remove" THEN "deleted" ELSE @.state,
               rev |-> @.rev + 1, users |-> @.users]]
  /\ returned' = returned \cup {Returned(o.kind, o.room_id, "ok")}
  /\ ops' = Finish(o)
  /\ UNCHANGED <<sock, rooms, connectedUsers, started, inbox, persisted, broadcasts>>

\* A store call (findUnique or update) rejected: the error propagates to
\* the caller, nothing is written.
StoreCallFails(o) ==
  /\ o.kind \in ServiceCalls /\ o.pc \in {"findUnique", "update"}
  /\ returned' = returned \cup {Returned(o.kind, o.room_id, "error")}
  /\ ops' = Finish(o)
  /\ UNCHANGED <<sock, rooms, connectedUsers, started, inbox, persisted, broadcasts, db>>

\* The room table before the first call: every id names a live room, a
\* soft-deleted room or no room.
InitRooms ==
  /\ sock = [c \in Conns |-> "new"]
  /\ rooms = [r \in Rooms |-> {}]
  /\ connectedUsers = [c \in Conns |-> NoInfo]
  /\ ops = EmptyBag
  /\ started = 0
  /\ inbox = [c \in Conns |-> << >>]
  /\ persisted = << >>
  /\ broadcasts = << >>
  /\ db \in [Rooms -> {LiveRow, Row("deleted"), Row("absent")}]
  /\ returned = {}

NextRooms ==
  \/ \E id \in RoomIds : started < MaxSvcOps /\ findOne(id)
  \/ \E id \in RoomIds : started < MaxSvcOps /\ update(id)
  \/ \E id \in RoomIds : started < MaxSvcOps /\ remove(id)
  \/ \E o \in InFlight : FindUniqueReturns(o)
  \/ \E o \in InFlight : RoomUpdateReturns(o)
  \/ \E o \in InFlight : StoreCallFails(o)

SpecRooms == InitRooms /\ [][NextRooms]_vars

\* ---------------------------------- the gateway next to RoomsService.remove
\* Requests and calls received under SpecRemove.
MaxRemoveOps == 3

NextRemove ==
  \/ \E c \in Conns : handleConnection(c)
  \/ \E c \in Conns : handleDisconnect(c)
  \/ \E c \in Conns, r \in Rooms :
       started < MaxRemoveOps /\ handleJoinRoom(c, r, UserOf[c])
  \/ \E o \in InFlight : JoinFound(o)
  \/ \E o \in InFlight : JoinFailed(o)
  \/ \E o \in InFlight : JoinFinish(o)
  \/ \E c \in Conns, r \in Rooms :
       started < MaxRemoveOps /\ handleSendMessage(c, r, UserOf[c])
  \/ \E o \in InFlight : StoreAccept(o)
  \/ \E o \in InFlight : StoreReject(o)
  \/ \E o \in InFlight : SendBroadcast(o)
  \/ \E o \in InFlight : SendFailed(o)
  \/ \E id \in Rooms : started < MaxRemoveOps /\ remove(id)
  \/ \E o \in InFlight : FindUniqueReturns(o)
  \/ \E o \in InFlight : RoomUpdateReturns(o)
  \/ \E o \in InFlight : StoreCallFails(o)

\* Every room is live at first; rooms are soft-deleted while sockets use them.
SpecRemove == Init /\ [][NextRemove]_vars

\* ------------------------------------------ payloads without their room_id
\* Requests received under SpecMalformed.
MaxMalformedOps == 3

\* What a payload can carry as room_id: a room id, or nothing (undefined).
\* The payloads of leave-room, typing and get-room-info are typed inline,
\* not by a DTO class, so nothing validates them before the handler runs.
PayloadRooms == Rooms \cup {NoRoom}

NextMalformed ==
  \/ \E c \in Conns : handleConnection(c)
  \/ \E c \in Conns : handleDisconnect(c)
  \/ \E c \in Conns, r \in Rooms :
       started < MaxMalformedOps /\ handleJoinRoom(c, r, UserOf[c])
  \/ \E o \in InFlight : JoinFound(o)
  \/ \E o \in InFlight : JoinFailed(o)
  \/ \E o \in InFlight : JoinFinish(o)
  \/ \E c \in Conns, r \in PayloadRooms :
       started < MaxMalformedOps /\ handleLeaveRoom(c, r, UserOf[c])
  \/ \E o \in InFlight : LeaveFinish(o)
  \/ \E c \in Conns, r \in PayloadRooms :
       started < MaxMalformedOps /\ handleTyping(c, r, UserOf[c])
  \/ \E c \in Conns, r \in PayloadRooms :
       started < MaxMalformedOps /\ handleGetRoomInfo(c, r)
  \/ \E o \in InFlight : InfoFound(o)
  \/ \E o \in InFlight : InfoFailed(o)

SpecMalformed == Init /\ [][NextMalformed]_vars

\* ------------------------------------- the gateway with a store that answers
\* Requests received under SpecLive.
MaxLiveOps == 3

\* A handler suspended at an await resumes; the store answers every call.
Continues ==
  \E o \in InFlight :
    \/ JoinFound(o)
    \/ JoinFailed(o)
    \/ JoinFinish(o)
    \/ LeaveFinish(o)
    \/ StoreAccept(o)
    \/ StoreReject(o)
    \/ SendBroadcast(o)
    \/ SendFailed(o)
    \/ InfoFound(o)
    \/ InfoFailed(o)

NextLive ==
  \/ \E c \in Conns : handleConnection(c)
  \/ \E c \in Conns : handleDisconnect(c)
  \/ \E c \in Conns, r \in Rooms :
       started < MaxLiveOps /\ handleJoinRoom(c, r, UserOf[c])
  \/ \E c \in Conns, r \in Rooms :
       started < MaxLiveOps /\ handleLeaveRoom(c, r, UserOf[c])
  \/ \E c \in Conns, r \in Rooms :
       started < MaxLiveOps /\ handleSendMessage(c, r, UserOf[c])
  \/ \E c \in Conns, r \in Rooms :
       started < MaxLiveOps /\ handleTyping(c, r, UserOf[c])
  \/ \E c \in Conns, r \in Rooms :
       started < MaxLiveOps /\ handleGetRoomInfo(c, r)
  \/ Continues

\* Every store call returns, with success or failure, and the event loop
\* runs the handler it resumes: a handler step that stays possible is taken.
SpecLive == Init /\ [][NextLive]_vars /\ WF_vars(Continues)

\* --------------------------------------------- payloads with any user id
\* Requests received under SpecForge.
MaxForgeOps == 3

\* Every payload names whatever user id its sender likes: the gateway does
\* not tie user_id to the socket.
NextForge ==
  \/ \E c \in Conns : handleConnection(c)
  \/ \E c \in Conns : handleDisconnect(c)
  \/ \E c \in Conns, r \in Rooms, u \in Users :
       started < MaxForgeOps /\ handleJoinRoom(c, r, u)
  \/ \E o \in InFlight : JoinFound(o)
  \/ \E o \in InFlight : JoinFailed(o)
  \/ \E o \in InFlight : JoinFinish(o)
  \/ \E c \in Conns, r \in Rooms, u \in Users :
       started < MaxForgeOps /\ handleLeaveRoom(c, r, u)
  \/ \E o \in InFlight : LeaveFinish(o)
  \/ \E c \in Conns, r \in Rooms, u \in Users :
       started < MaxForgeOps /\ handleSendMessage(c, r, u)
  \/ \E o \in InFlight : StoreAccept(o)
  \/ \E o \in InFlight : StoreReject(o)
  \/ \E o \in InFlight : SendBroadcast(o)
  \/ \E o \in InFlight : SendFailed(o)
  \/ \E c \in Conns, r \in Rooms, u \in Users :
       started < MaxForgeOps /\ handleTyping(c, r, u)

SpecForge == Init /\ [][NextForge]_vars

\* ================================================================ claims
\* No handler is suspended: every request received so far has run to its end.
Quiescent == ops = EmptyBag

\* o is the only handler in flight.
Alone(o) == ops = SetToBag({o})

\* Handler o ends in this step.
Ends(o) == CopiesIn(o, ops') < CopiesIn(o, ops)

RoomsOf(c) == {r \in Rooms : c \in rooms[r]}

\* The positions of the new-message events in inbox[c].
NewMessages(c) == {i \in DOMAIN inbox[c] : inbox[c][i].type = "new-message"}

\* ------------------------------------------------------------------- C1
\* C1: once every handler has finished, for every room R the sockets in R's
\* transport room are exactly the sockets whose connectedUsers entry has
\* roomId = R (stated here of the sockets that are still connected).
C1_MembershipMatchesSessions ==
  Quiescent =>
    \A r \in Rooms : \A c \in Conns :
      sock[c] = "open" => (c \in rooms[r] <=> connectedUsers[c].roomId = r)

\* ------------------------------------------------------------------- C2
\* C2: in every reachable state a socket is in at most one transport room.
C2_AtMostOneRoom == \A c \in Conns : Cardinality(RoomsOf(c)) <= 1

\* ------------------------------------------------------------------- C3
\* C3: two new-message broadcasts of the same room are emitted in the order
\* in which the store accepted their messages (increasing message id).
C3_BroadcastInStoreOrder ==
  \A i, j \in DOMAIN broadcasts :
    (i < j /\ persisted[broadcasts[i]] = persisted[broadcasts[j]])
      => broadcasts[i] < broadcasts[j]

\* ------------------------------------------------------------------- C4
\* C4: two sockets that both received the same two new-message events of a
\* room received them in the same relative order.
C4_SameRelativeOrder ==
  \A a, b \in Conns :
    \A i1, i2 \in NewMessages(a) :
      \A j1, j2 \in NewMessages(b) :
        ( /\ i1 < i2
          /\ inbox[a][i1].room_id = inbox[a][i2].room_id
          /\ inbox[b][j1] = inbox[a][i1]
          /\ inbox[b][j2] = inbox[a][i2] ) => j1 < j2

\* Two different sockets have each received the same two messages of a room.
C4_Witness ==
  \E a, b \in Conns :
    /\ a /= b
    /\ \E i1, i2 \in NewMessages(a) :
         /\ i1 < i2
         /\ inbox[a][i1].room_id = inbox[a][i2].room_id
         /\ \E j1, j2 \in NewMessages(b) :
              inbox[b][j1] = inbox[a][i1] /\ inbox[b][j2] = inbox[a][i2]

\* ------------------------------------------------------------------- C5
\* C5: a send-message whose createMessage is rejected emits nothing when the
\* rejection happens and, when its handler ends, exactly one error event, to
\* the requesting socket and to no other; no new-message is emitted for it.
C5_FailedSendErrorOnly ==
  [][\A o \in InFlight :
       (o.kind = "send-message" /\ Ends(o)) =>
         /\ o.pc = "createMessage" => inbox' = inbox
         /\ o.pc = "failed" =>
              inbox' = [inbox EXCEPT ![o.client] =
                          Append(@, Error("Failed to send message"))]]_vars

\* A socket has been sent the error of a rejected send-message.
C5_Witness ==
  \E c \in Conns : \E i \in DOMAIN inbox[c] :
    inbox[c][i] = Error("Failed to send message")

\* ------------------------------------------------------------------- C6
\* C6: every new-message emitted carries a message the store has accepted and
\* whose createMessage call has returned to its handler: no message is
\* broadcast while its handler still awaits the store.
C6_NoBroadcastBeforeAck ==
  /\ \A k \in DOMAIN broadcasts : broadcasts[k] \in 1..Len(persisted)
  /\ \A o \in InFlight : \A k \in DOMAIN broadcasts :
       o.kind = "send-message" => broadcasts[k] /= o.id
  /\ \A c \in Conns : \A i \in NewMessages(c) :
       /\ \E k \in DOMAIN broadcasts : broadcasts[k] = inbox[c][i].id
       /\ persisted[inbox[c][i].id] = inbox[c][i].room_id

\* A message was broadcast and reached a member while another send-message
\* is still awaiting the store.
C6_Witness ==
  /\ \E c \in Conns : NewMessages(c) /= {}
  /\ \E o \in InFlight : o.kind = "send-message"

\* ------------------------------------------------------------------- C7
\* C7: the second of two leave-room requests in a row for room R (the socket
\* was last sent left-room for R, is no longer in R, its session room is
\* cleared and nothing else is in flight) changes no state and emits nothing.
C7_SecondLeaveIsNoOp ==
  [][\A o \in InFlight :
       ( /\ o.kind = "leave-room" /\ Ends(o) /\ Alone(o)
         /\ ~o.member
         /\ connectedUsers[o.client].roomId = NoRoom
         /\ inbox[o.client] /= << >>
         /\ inbox[o.client][Len(inbox[o.client])] =
              Event("left-room", o.room_id, o.user_id, 0) )
       => (inbox' = inbox /\ connectedUsers' = connectedUsers
             /\ rooms' = rooms)]_vars

\* ------------------------------------------------------------------- C8
\* C8: a leave-room for a room the socket is not in (nothing else being in
\* flight) leaves every session and every room unchanged, delivers nothing
\* to the members of that room and emits no error.
C8_LeaveNonMemberIsNoOp ==
  [][\A o \in InFlight :
       (o.kind = "leave-room" /\ Ends(o) /\ Alone(o) /\ ~o.member)
       => /\ connectedUsers' = connectedUsers
          /\ rooms' = rooms
          /\ \A m \in Conns \ {o.client} : inbox'[m] = inbox[m]
          /\ \A i \in DOMAIN inbox'[o.client] :
               i > Len(inbox[o.client]) => inbox'[o.client][i].type /= "error"
    ]_vars

\* ------------------------------------------------------------------- C9
\* C9: when a socket that is in room R disconnects (no handler in flight),
\* every other member of R is sent exactly one event, a user-left carrying
\* the socket's user id, and R's membership loses that socket only.
C9_DisconnectNotifiesRoom ==
  [][\A c \in Conns : \A r \in Rooms :
       (Quiescent /\ sock[c] = "open" /\ sock'[c] = "closed" /\ c \in rooms[r])
       => /\ rooms'[r] = rooms[r] \ {c}
          /\ \A m \in rooms[r] \ {c} :
               /\ Len(inbox'[m]) = Len(inbox[m]) + 1
               /\ inbox'[m][Len(inbox'[m])].type = "user-left"
               /\ inbox'[m][Len(inbox'[m])].user_id = UserOf[c]
    ]_vars

\* ------------------------------------------------------------------ C10
\* C10: once a socket has disconnected and none of its handlers is in flight
\* any more, no room and no connectedUsers entry refers to it.
C10_NoStaleEntryAfterDisconnect ==
  \A c \in Conns :
    (sock[c] = "closed" /\ \A o \in InFlight : o.client /= c)
      => (connectedUsers[c] = NoInfo /\ RoomsOf(c) = {})

\* ------------------------------------------------------------------ C11
\* The handlers in flight for room r.
PendingOn(r) == {o \in InFlight : o.room_id = r}

C12_JoinUnknownRoomErrorOnly ==
  [][\A o \in InFlight :
       ( /\ o.kind = "join-room" /\ o.pc = "findOne" /\ Ends(o)
         /\ db[o.room_id].state /= "live" )
       => /\ inbox' = [inbox EXCEPT ![o.client] =
                         Append(@, Error("Failed to join room"))]
          /\ connectedUsers' = connectedUsers
          /\ rooms' = rooms]_vars

\* No room id names a live room and a socket's join-room has been answered
\* with the error.
C12_Witness ==
  /\ \A r \in Rooms : db[r].state /= "live"
  /\ \E c \in Conns :
       /\ inbox[c] /= << >>
       /\ inbox[c][Len(inbox[c])] = Error("Failed to join room")

\* ------------------------------------------------------------------ C13
\* Handler o moves on to the await named pc in this step.
MovesTo(o, pc) ==
  /\ Ends(o)
  /\ CopiesIn([o EXCEPT !.pc = pc], ops') > CopiesIn([o EXCEPT !.pc = pc], ops)

\* C13: a join-room for R by a socket that is connected, once findOne has
\* found R, (a) adds the socket to R's membership and to no other, and then
\* (b) sets the socket's session room to R, emits exactly one joined-room,
\* to the requester only, and exactly one user-joined to every other socket
\* that is in R at that moment, and nothing to anybody else.  (b) is stated
\* of a requester that is in R when the handler resumes.
C13_JoinEffects ==
  [][\A o \in InFlight :
       LET c == o.client  r == o.room_id  u == o.user_id IN
       (o.kind = "join-room" /\ sock[c] = "open") =>
         /\ (o.pc = "findOne" /\ MovesTo(o, "join")) =>
              /\ rooms' = [rooms EXCEPT ![r] = @ \cup {c}]
              /\ inbox' = inbox
         /\ (o.pc = "join" /\ Ends(o) /\ c \in rooms[r]) =>
              /\ rooms' = rooms
              /\ connectedUsers'[c].roomId = r
              /\ \A x \in Conns \ {c} : connectedUsers'[x] = connectedUsers[x]
              /\ inbox'[c] = Append(inbox[c], Event("joined-room", r, u, 0))
              /\ \A m \in rooms[r] \ {c} :
                   inbox'[m] = Append(inbox[m], Event("user-joined", r, u, 0))
              /\ \A x \in Conns \ rooms[r] : inbox'[x] = inbox[x]]_vars

\* Two sockets are in r1 with session room r1; the one that joined last was
\* sent joined-room and the other was sent its user-joined.
C13_Witness ==
  \E c, m \in Conns :
    /\ c /= m /\ {c, m} \subseteq rooms["r1"]
    /\ connectedUsers[c].roomId = "r1" /\ connectedUsers[m].roomId = "r1"
    /\ inbox[c] /= << >> /\ inbox[m] /= << >>
    /\ inbox[c][Len(inbox[c])] = Event("joined-room", "r1", UserOf[c], 0)
    /\ inbox[m][Len(inbox[m])] = Event("user-joined", "r1", UserOf[c], 0)

\* ------------------------------------------------------------------ C14
\* C14: when a send-message whose createMessage succeeded broadcasts, the
\* new-message goes, once, to exactly the sockets that are in room R at that
\* moment (the author included when it is in R), all of them connected;
\* a socket that has left R or disconnected since the request gets nothing.
C14_RecipientsAreCurrentMembers ==
  [][\A o \in InFlight :
       (o.kind = "send-message" /\ o.pc = "created" /\ Ends(o)) =>
         /\ \A x \in rooms[o.room_id] :
              /\ sock[x] = "open"
              /\ inbox'[x] = Append(inbox[x],
                   Event("new-message", o.room_id, o.user_id, o.id))
         /\ \A x \in Conns \ rooms[o.room_id] : inbox'[x] = inbox[x]]_vars

\* The author had joined r1 and disconnected while its send was pending: the
\* other member of r1 was sent the message, the author was not.
C14_Witness ==
  \E c, m \in Conns :
    /\ c /= m /\ sock[c] = "closed" /\ m \in rooms["r1"]
    /\ \E i \in DOMAIN inbox[c] :
         inbox[c][i] = Event("joined-room", "r1", UserOf[c], 0)
    /\ NewMessages(c) = {}
    /\ \E i \in NewMessages(m) :
         inbox[m][i].user_id = UserOf[c] /\ inbox[m][i].room_id = "r1"

\* ------------------------------------------------------------------ C15
\* A request is received and handled to its end in one step, no handler
\* being suspended: of the five inbound events only typing does that.
SynchronousRequest == started' = started + 1 /\ ops' = ops

C16_RoomInfoCountsLiveMembers ==
  [][\A o \in InFlight :
       ( /\ o.kind = "get-room-info" /\ Ends(o) /\ Alone(o)
         /\ Len(inbox'[o.client]) = Len(inbox[o.client]) + 1
         /\ inbox'[o.client][Len(inbox'[o.client])].type = "room-info" )
       => inbox'[o.client][Len(inbox'[o.client])].userCount
            = Cardinality(rooms[o.room_id])]_vars

\* ------------------------------------------------------------------ C17
\* C17: a findOne, update or remove whose lookup finds no row or a
\* soft-deleted row ends without any write and without success: with
\* NotFound (or with the store's own error when the lookup call itself is
\* rejected).  A row that is soft-deleted or absent stays so, hence once
\* remove(id) has succeeded every later findOne, update and remove of that id
\* ends that way and leaves the room table unchanged.
C17_NotFoundAndNoWrite ==
  [][/\ \A o \in InFlight :
          ( /\ o.kind \in ServiceCalls /\ o.pc = "findUnique" /\ Ends(o)
            /\ db[o.room_id].state /= "live" )
          => /\ db' = db
             /\ ops' = Finish(o)
             /\ \/ returned' = returned \cup
                                 {Returned(o.kind, o.room_id, "NotFound")}
                \/ returned' = returned \cup
                                 {Returned(o.kind, o.room_id, "error")}
     /\ \A id \in Rooms :
          db[id].state /= "live" => db'[id].state = db[id].state]_vars

\* remove(r1) has succeeded, r1 is soft-deleted, and a findOne, an update
\* and a second remove of r1 have each ended with NotFound.
C17_Witness ==
  /\ db["r1"].state = "deleted" /\ db["r1"].rev = 1
  /\ Returned("remove", "r1", "ok") \in returned
  /\ \A k \in ServiceCalls : Returned(k, "r1", "NotFound") \in returned

\* ------------------------------------------------------------------ C18
\* A handler for room r is suspended at a call to the store (and no handler
\* is suspended anywhere else).
AwaitingStore(r) ==
  /\ PendingOn(r) /= {}
  /\ \A o \in InFlight : o.pc \in {"findOne", "createMessage"}

\* The step receives a request and, at once, changes r's membership or emits
\* an event of room r.
ArrivalActsOn(r) ==
  /\ started' = started + 1
  /\ \/ rooms'[r] /= rooms[r]
     \/ \E x \in Conns :
          /\ Len(inbox'[x]) > Len(inbox[x])
          /\ inbox'[x][Len(inbox'[x])].room_id = r

\* C18: requests for one room are processed one at a time in arrival order:
\* while a handler for room R is suspended at a call to the store, a request
\* for R that arrives takes no effect on R (no membership change, no event)
\* before that handler has finished.
C18_OneAtATimePerRoom ==
  [][\A r \in Rooms : AwaitingStore(r) => ~ArrivalActsOn(r)]_vars

\* ------------------------------------------------------------------ C19
\* Socket c has a send-message in flight whose store call has not come back
\* to its handler.
SendPending(c) ==
  \E o \in InFlight :
    o.kind = "send-message" /\ o.client = c
      /\ o.pc \in {"createMessage", "created"}

\* C19: when the author of a send-message has disconnected while the handler
\* awaited createMessage and the write succeeds, the handler still emits the
\* new-message, once, to the sockets then in the room and nothing (no error)
\* to anybody else; and the disconnect of a socket with such a send pending,
\* whether the store has accepted the write yet or not, removes the socket's
\* session, emits one user-left to the others in its session room and leaves
\* the pending handler alone.
C19_SendSurvivesAuthorDisconnect ==
  [][/\ \A o \in InFlight :
          ( /\ o.kind = "send-message" /\ o.pc = "created" /\ Ends(o)
            /\ sock[o.client] = "closed" )
          => /\ \A m \in Conns :
                  inbox'[m] = IF m \in rooms[o.room_id]
                                THEN Append(inbox[m], Event("new-message",
                                       o.room_id, o.user_id, o.id))
                                ELSE inbox[m]
             /\ inbox'[o.client] = inbox[o.client]
             /\ \A k \in DOMAIN broadcasts : broadcasts[k] /= o.id
             /\ broadcasts' = Append(broadcasts, o.id)
     /\ \A c \in Conns :
          (SendPending(c) /\ sock[c] = "open" /\ sock'[c] = "closed")
          => /\ connectedUsers'[c] = NoInfo
             /\ ops' = ops
             /\ LET r == connectedUsers[c].roomId IN
                  \A m \in Conns :
                    inbox'[m] =
                      IF r \in Rooms /\ m \in rooms[r] \ {c}
                        THEN Append(inbox[m], Event("user-left", r,
                               connectedUsers[c].userId, 0))
                        ELSE inbox[m]]_vars

\* The author of a message has disconnected and has no session; the other
\* member of r1 was sent the author's user-left and, after it, the message.
C19_Witness ==
  \E c, m \in Conns :
    /\ c /= m /\ sock[c] = "closed" /\ connectedUsers[c] = NoInfo
    /\ \E i \in NewMessages(m) :
         /\ i > 1
         /\ inbox[m][i].user_id = UserOf[c]
         /\ inbox[m][i - 1] = Event("user-left", "r1", UserOf[c], 0)

\* ------------------------------------------------------------------ C20
\* The step is the failure of a request at the store: the store rejects a
\* createMessage, or a catch block emits its error.
FailsAtStore ==
  \/ \E o \in InFlight :
       o.kind = "send-message" /\ o.pc = "createMessage" /\ MovesTo(o, "failed")
  \/ \E o \in InFlight :
       /\ o.kind \in {"send-message", "join-room", "get-room-info"} /\ Ends(o)
       /\ Len(inbox'[o.client]) = Len(inbox[o.client]) + 1
       /\ inbox'[o.client][Len(inbox'[o.client])].type = "error"

\* An error has been emitted to some socket.
SomeRequestFailed ==
  \E c \in Conns : \E i \in DOMAIN inbox[c] : inbox[c][i].type = "error"

\* C20: the failure of a send-message, join-room or get-room-info at the
\* store changes no session, no room's membership and nothing in the store;
\* and after such a failure a send-message whose createMessage succeeds
\* broadcasts as ever: one new-message to each socket in the room, nothing to
\* the others.
C20_StoreFailureIsLocal ==
  [][/\ FailsAtStore =>
          /\ connectedUsers' = connectedUsers
          /\ rooms' = rooms
          /\ persisted' = persisted /\ db' = db /\ broadcasts' = broadcasts
     /\ \A o \in InFlight :
          ( /\ SomeRequestFailed
            /\ o.kind = "send-message" /\ o.pc = "created" /\ Ends(o) )
          => inbox' = [x \in Conns |->
                         IF x \in rooms[o.room_id]
                           THEN inbox[x] \o <<Event("new-message", o.room_id,
                                                    o.user_id, o.id)>>
                           ELSE inbox[x]]]_vars

\* A socket in r1, with session room r1, was sent an error and later the
\* new-message of a send to r1.
C20_Witness ==
  \E c \in rooms["r1"] :
    /\ connectedUsers[c].roomId = "r1"
    /\ \E i, j \in DOMAIN inbox[c] :
         /\ i < j
         /\ inbox[c][i].type = "error"
         /\ inbox[c][j].type = "new-message" /\ inbox[c][j].room_id = "r1"

\* ------------------------------------------------------------------ C21
\* C21: a send-message handled while its room is absent or soft-deleted is
\* refused: the store call made for it while the room is not live does not
\* succeed, and the handler ends by emitting the error to the requester and
\* nothing else, with no broadcast and no change of session or membership.
C21_SendToDeletedRoomRefused ==
  [][\A o \in InFlight :
       (o.kind = "send-message" /\ Ends(o) /\ db[o.room_id].state /= "live")
       => /\ o.pc = "createMessage" => MovesTo(o, "failed")
          /\ o.pc /= "createMessage" =>
               /\ inbox' = [inbox EXCEPT ![o.client] =
                              Append(@, Error("Failed to send message"))]
               /\ broadcasts' = broadcasts
          /\ connectedUsers' = connectedUsers
          /\ rooms' = rooms]_vars

\* ------------------------------------------------------------------ C22
\* C22: a request whose payload lacks room_id is rejected before any handler
\* effect: when its handler ends (no other handler being in flight) no
\* session and no room's membership has changed.
C22_MalformedPayloadNoEffect ==
  [][\A o \in InFlight :
       (o.room_id = NoRoom /\ Ends(o) /\ Alone(o))
       => (connectedUsers' = connectedUsers /\ rooms' = rooms)]_vars

\* ------------------------------------------------------------------ C23
\* C23: in every reachable state connectedUsers has an entry for a socket if
\* and only if the socket is connected.
C23_SessionIffConnected ==
  \A c \in Conns : (connectedUsers[c] /= NoInfo) <=> (sock[c] = "open")

\* ------------------------------------------------------------------ C24
\* Handler o is at the point from which its catch block is entered.
CanFail(o) ==
  \/ o.kind \in {"join-room", "get-room-info"} /\ o.pc = "findOne"
  \/ o.kind = "send-message" /\ o.pc = "failed"

\* C24: whenever an error event is emitted to a socket, a handler of that
\* socket's own request ends in that step through its catch block, and no
\* other socket is sent anything in that step.
C24_ErrorsToRequesterOnly ==
  [][\A x \in Conns :
       ( /\ Len(inbox'[x]) > Len(inbox[x])
         /\ inbox'[x][Len(inbox'[x])].type = "error" )
       => /\ \E o \in InFlight : o.client = x /\ CanFail(o) /\ Ends(o)
          /\ Len(inbox'[x]) = Len(inbox[x]) + 1
          /\ \A y \in Conns \ {x} : inbox'[y] = inbox[y]]_vars

\* Both sockets are in r1; one was last sent an error, the other has never
\* been sent one.
C24_Witness ==
  \E c, m \in Conns :
    /\ c /= m /\ {c, m} \subseteq rooms["r1"]
    /\ inbox[c] /= << >>
    /\ inbox[c][Len(inbox[c])].type = "error"
    /\ \A i \in DOMAIN inbox[m] : inbox[m][i].type /= "error"

\* ------------------------------------------------------------------ C25
\* A handler of one of the given kinds starts, moves on or ends in this step.
StepOf(kinds) ==
  \E o \in InFlight \cup BagToSet(ops') :
    o.kind \in kinds /\ CopiesIn(o, ops') /= CopiesIn(o, ops)

\* Socket c is closed in this step.
Disconnects(c) == sock[c] = "open" /\ sock'[c] = "closed"

\* C25: a step that changes a session entry or a room's membership is a step
\* of a join-room or leave-room handler or a disconnect; a step of a
\* send-message or get-room-info handler, and the handling of a typing
\* event, change neither, whether the request succeeds or fails.
C25_OnlyJoinLeaveDisconnectChange ==
  [][/\ (connectedUsers' /= connectedUsers \/ rooms' /= rooms)
          => \/ \E c \in Conns : Disconnects(c)
             \/ StepOf({"join-room", "leave-room"})
     /\ (StepOf({"send-message", "get-room-info"}) \/ SynchronousRequest)
          => (connectedUsers' = connectedUsers /\ rooms' = rooms)]_vars

\* A socket in r1 with session room r1 was sent, in this order, joined-room,
\* a new-message of r1 and a room-info, and is a member as before.
C25_Witness ==
  \E c \in rooms["r1"] :
    /\ connectedUsers[c].roomId = "r1"
    /\ Len(inbox[c]) = 3
    /\ inbox[c][1].type = "joined-room"
    /\ inbox[c][2].type = "new-message"
    /\ inbox[c][3].type = "room-info"

\* ------------------------------------------------------------------ C26
\* C26: when socket c disconnects, nothing is emitted to c, c's session entry
\* is removed (and no other entry changes), and user-left, carrying the
\* session's user id, goes to the other sockets in the room recorded in the
\* session and to nobody else; when there is no session or the session has
\* no room, nothing is emitted at all.
C26_DisconnectEmissions ==
  [][\A c \in Conns :
       Disconnects(c) =>
         LET s == connectedUsers[c] IN
         /\ inbox'[c] = inbox[c]
         /\ connectedUsers' = [connectedUsers EXCEPT ![c] = NoInfo]
         /\ (s = NoInfo \/ s.roomId = NoRoom) => inbox' = inbox
         /\ (s /= NoInfo /\ s.roomId /= NoRoom) =>
              \A m \in Conns \ {c} :
                inbox'[m] = IF m \in rooms[s.roomId]
                              THEN Append(inbox[m],
                                     Event("user-left", s.roomId, s.userId, 0))
                              ELSE inbox[m]]_vars

\* Socket c left r1 by leave-room (the other member m was sent one
\* user-left) and then disconnected: m was sent no second user-left.
C26_Witness ==
  \E c, m \in Conns :
    /\ c /= m /\ sock[c] = "closed" /\ m \in rooms["r1"]
    /\ inbox[c] /= << >>
    /\ inbox[c][Len(inbox[c])] = Event("left-room", "r1", UserOf[c], 0)
    /\ Cardinality({i \in DOMAIN inbox[m] : inbox[m][i].type = "user-left"}) = 1

\* ------------------------------------------------------------------ C27
\* Handler o ends for good in this step (it does not move on to an await).
Completes(o) == Ends(o) /\ BagCardinality(ops') < BagCardinality(ops)

\* The step sends the requester of o exactly one event, of one of the types.
Answers(o, types) ==
  /\ Len(inbox'[o.client]) = Len(inbox[o.client]) + 1
  /\ inbox'[o.client][Len(inbox'[o.client])].type \in types

\* C27: when every store call returns, every join-room, get-room-info and
\* send-message handler ends (again and again no handler is in flight); it
\* emits nothing before its last step, and its last step yields exactly one
\* outcome: joined-room or error to the requester of a join-room, room-info
\* or error to the requester of a get-room-info, and for a send-message
\* either one new-message broadcast and no error, or one error to the
\* author and no broadcast.
C27_ExactlyOneOutcome ==
  /\ []<>Quiescent
  /\ [][\A o \in InFlight :
          (o.kind \in {"join-room", "get-room-info", "send-message"} /\ Ends(o))
          => /\ ~Completes(o) => (inbox' = inbox /\ broadcasts' = broadcasts)
             /\ (Completes(o) /\ o.kind = "join-room")
                  => Answers(o, {"joined-room", "error"})
             /\ (Completes(o) /\ o.kind = "get-room-info")
                  => Answers(o, {"room-info", "error"})
             /\ (Completes(o) /\ o.kind = "send-message")
                  => \/ /\ broadcasts' = Append(broadcasts, o.id)
                        /\ \A x \in Conns :
                             \/ inbox'[x] = inbox[x]
                             \/ inbox'[x] = Append(inbox[x], Event("new-message",
                                              o.room_id, o.user_id, o.id))
                     \/ /\ broadcasts' = broadcasts
                        /\ Answers(o, {"error"})
                        /\ \A x \in Conns \ {o.client} : inbox'[x] = inbox[x]
     ]_vars

\* The three requests received have all been answered: a socket was sent
\* joined-room, then the new-message of its send and the error of another.
C27_Witness ==
  /\ Quiescent /\ started = MaxLiveOps
  /\ \E c \in Conns :
       /\ Len(inbox[c]) = 3
       /\ inbox[c][1].type = "joined-room"
       /\ {inbox[c][2].type, inbox[c][3].type} = {"new-message", "error"}

\* ------------------------------------------------------------------ C28
\* The sender of o is not in o's room, by the transport room and by its
\* session alike.
SenderOutside(o) ==
  /\ o.client \notin rooms[o.room_id]
  /\ connectedUsers[o.client].roomId /= o.room_id

\* C28: the send-message of a socket that has not joined the named room
\* ends like any other: when createMessage succeeded, exactly one
\* new-message is broadcast to the sockets in the named room (and to nobody
\* else); when it failed, none is and the sender is sent the error.
C28_SendNeedsNoMembership ==
  [][\A o \in InFlight :
       (o.kind = "send-message" /\ Completes(o) /\ SenderOutside(o)) =>
         \/ /\ o.pc = "created"
            /\ broadcasts' = Append(broadcasts, o.id)
            /\ inbox' = [x \in Conns |->
                           IF x \in rooms[o.room_id]
                             THEN Append(inbox[x], Event("new-message",
                                    o.room_id, o.user_id, o.id))
                             ELSE inbox[x]]
         \/ /\ o.pc = "failed"
            /\ broadcasts' = broadcasts
            /\ inbox' = [inbox EXCEPT ![o.client] =
                           Append(@, Error("Failed to send message"))]]_vars

\* A connected socket that never joined a room (it has no session and is in
\* no room) has sent a message to r1, and a member of r1 was sent it.
C28_Witness ==
  \E c, m \in Conns :
    /\ c /= m /\ sock[c] = "open" /\ Quiescent
    /\ connectedUsers[c] = NoInfo /\ RoomsOf(c) = {}
    /\ m \in rooms["r1"]
    /\ \E i \in NewMessages(m) :
         inbox[m][i].user_id = UserOf[c] /\ inbox[m][i].room_id = "r1"

\* ------------------------------------------------------------------ C29
\* The events of a room that its members are sent.
RoomEvents == {"new-message", "user-joined", "user-left", "user-typing"}

JoinedAt(c) == {i \in DOMAIN inbox[c] : inbox[c][i].type = "joined-room"}

\* The joined-room event of c's most recent successful join-room.
LastJoined(c) ==
  inbox[c][CHOOSE i \in JoinedAt(c) : \A j \in JoinedAt(c) : j <= i]

\* C30: every event sent when socket c disconnects is a user-left carrying
\* the user id and the room of c's most recent successful join-room, whatever
\* user ids c's send-message, typing and leave-room payloads named since.
C30_UserLeftCarriesJoinedUser ==
  [][\A c \in Conns :
       Disconnects(c) =>
         \A m \in Conns :
           inbox'[m] /= inbox[m] =>
             /\ JoinedAt(c) /= {}
             /\ inbox'[m] = Append(inbox[m],
                              Event("user-left", LastJoined(c).room_id,
                                    LastJoined(c).user_id, 0))]_vars

\* Socket c joined a room under one user id, sent m (a member of that room) a
\* typing event naming another user id, and disconnected: m's last event is
\* the user-left, and it carries the id of the join.
C30_Witness ==
  \E c, m \in Conns :
    /\ c /= m /\ sock[c] = "closed" /\ JoinedAt(c) /= {}
    /\ Len(inbox[m]) >= 2
    /\ LET n == Len(inbox[m]) IN
         /\ inbox[m][n] = Event("user-left", LastJoined(c).room_id,
                                LastJoined(c).user_id, 0)
         /\ inbox[m][n - 1].type = "user-typing"
         /\ inbox[m][n - 1].room_id = LastJoined(c).room_id
         /\ inbox[m][n - 1].user_id /= LastJoined(c).user_id

====
